---- MODULE Spec2Model ----
(***************************************************************************)
(* IronLog Logs API (src/app.py): an HTTP service that keeps one JSON      *)
(* workout log per date in a Drive folder, plus the manifest index.json.   *)
(*                                                                         *)
(* Conventions of the model                                                *)
(*   - A Python str the code inspects (dates, file names, workout types,   *)
(*     muscle labels, headers) is the sequence of its characters, so that  *)
(*     strip(), lower(), <, endswith(), slicing and f-strings are computed.*)
(*   - Optional[T]: <<>> is None and <<v>> is the value v.                 *)
(*   - A Python dict is a TLA+ record; a JSON document is the sequence of  *)
(*     its <<key, value>> members.                                         *)
(*   - Every handler takes one step per Drive call, so requests interleave *)
(*     at the Drive calls: a save between the calls of a read, a save      *)
(*     between the calls of another save.                                  *)
(***************************************************************************)
EXTENDS Integers, Sequences, FiniteSets, TLC

(***************************************************************************)
(* Python str operations                                                   *)
(***************************************************************************)
\* Characters in code point order; Ord gives the rank str comparison uses.
CharOrder ==
  <<"\t", " ", "'", "-", ".", "0", "1", "2", "3", "4", "5", "6", "7", "8", "9",
    "A", "B", "C", "D", "E", "F", "G", "H", "I", "J", "K", "L", "M", "N", "O",
    "P", "Q", "R", "S", "T", "U", "V", "W", "X", "Y", "Z",
    "a", "b", "c", "d", "e", "f", "g", "h", "i", "j", "k", "l", "m", "n", "o",
    "p", "q", "r", "s", "t", "u", "v", "w", "x", "y", "z">>

Ord(c) == CHOOSE i \in 1..Len(CharOrder) : CharOrder[i] = c

Digits == <<"0", "1", "2", "3", "4", "5", "6", "7", "8", "9">>

IsDigit(c) == \E i \in 1..10 : Digits[i] = c

DigitVal(c) == (CHOOSE i \in 1..10 : Digits[i] = c) - 1

IsSpace(c) == c \in {" ", "\t"}

\* str.lower() on one character: "A".."Z" are ranks 16..41, "a".."z" 42..67.
LowerChar(c) ==
  IF Ord(c) >= Ord("A") /\ Ord(c) <= Ord("Z") THEN CharOrder[Ord(c) + 26] ELSE c

Lower(s) == [i \in 1..Len(s) |-> LowerChar(s[i])]

RECURSIVE LStrip(_)
LStrip(s) == IF s # <<>> /\ IsSpace(Head(s)) THEN LStrip(Tail(s)) ELSE s

RECURSIVE RStrip(_)
RStrip(s) ==
  IF s # <<>> /\ IsSpace(s[Len(s)]) THEN RStrip(SubSeq(s, 1, Len(s) - 1)) ELSE s

Strip(s) == RStrip(LStrip(s))

\* a < b on str: lexicographic by code point, a proper prefix being smaller.
RECURSIVE StrLess(_, _)
StrLess(a, b) ==
  IF b = <<>> THEN FALSE
  ELSE IF a = <<>> THEN TRUE
  ELSE IF Head(a) = Head(b) THEN StrLess(Tail(a), Tail(b))
  ELSE Ord(Head(a)) < Ord(Head(b))

EndsWith(s, suffix) ==
  /\ Len(s) >= Len(suffix)
  /\ SubSeq(s, Len(s) - Len(suffix) + 1, Len(s)) = suffix

\* s[:-n]
DropLast(s, n) == SubSeq(s, 1, Len(s) - n)

RECURSIVE ToInt(_)
ToInt(s) == IF s = <<>> THEN 0 ELSE 10 * ToInt(DropLast(s, 1)) + DigitVal(s[Len(s)])

AllDigits(s) == \A i \in 1..Len(s) : IsDigit(s[i])

DotJson == <<".", "j", "s", "o", "n">>

IndexJson == <<"i", "n", "d", "e", "x">> \o DotJson

Push == <<"p", "u", "s", "h">>

Pull == <<"p", "u", "l", "l">>

Legs == <<"l", "e", "g", "s">>

ApplicationJson == <<"application/json">>

\* The configured API_KEY and the header value the handlers accept.
ApiKey == <<"k", "1">>

BearerApiKey == <<"B", "e", "a", "r", "e", "r", " ">> \o ApiKey

(***************************************************************************)
(* Optional values and dicts                                               *)
(***************************************************************************)
None == <<>>

Some(v) == <<v>>

\* (x or default) on an Optional whose values are sequences: None and the
\* empty value are both falsy.
OrElse(opt, default) == IF opt = None \/ opt[1] = <<>> THEN default ELSE opt[1]

\* dict.get(key), absent keys reading as None; the value must be an Optional.
DictGet(d, key) == IF key \in DOMAIN d THEN d[key] ELSE None

(***************************************************************************)
(* The schema: Set, Exercise, WorkoutLog                                   *)
(***************************************************************************)
\* Set.reps_positive, Set.weight_nonneg
SetValid(s) == s.reps >= 1 /\ s.weight >= 0

\* Exercise.name_nonempty
NameValid(name) == Strip(name) # <<>>

\* Exercise.muscles_norm: strip and lower each label, drop the blank ones.
RECURSIVE NormList(_)
NormList(ms) ==
  IF ms = <<>> THEN <<>>
  ELSE IF Strip(Head(ms)) # <<>>
       THEN <<Lower(Strip(Head(ms)))>> \o NormList(Tail(ms))
       ELSE NormList(Tail(ms))

muscles_norm(v) == IF v = None THEN None ELSE Some(NormList(v[1]))

ExerciseValid(e) ==
  /\ NameValid(e.name)
  /\ \A i \in 1..Len(e.sets) : SetValid(e.sets[i])

ExerciseDump(e) ==
  [name |-> e.name, sets |-> e.sets, target_muscles |-> muscles_norm(e.target_muscles)]

\* datetime.strptime(v, "%Y-%m-%d"): %Y is \d\d\d\d, %m is 1[0-2]|0[1-9]|[1-9],
\* %d is 3[0-1]|[1-2]\d|0[1-9]|[1-9]| [1-9]; the whole string must be consumed
\* and the fields must name a day of the calendar.
MonthRe(s) ==
  \/ Len(s) = 2 /\ s[1] = "1" /\ s[2] \in {"0", "1", "2"}
  \/ Len(s) = 2 /\ s[1] = "0" /\ IsDigit(s[2]) /\ s[2] # "0"
  \/ Len(s) = 1 /\ IsDigit(s[1]) /\ s[1] # "0"

DayRe(s) ==
  \/ Len(s) = 2 /\ s[1] = "3" /\ s[2] \in {"0", "1"}
  \/ Len(s) = 2 /\ s[1] \in {"1", "2"} /\ IsDigit(s[2])
  \/ Len(s) = 2 /\ s[1] \in {"0", " "} /\ IsDigit(s[2]) /\ s[2] # "0"
  \/ Len(s) = 1 /\ IsDigit(s[1]) /\ s[1] # "0"

IsLeap(y) == y % 4 = 0 /\ (y % 100 # 0 \/ y % 400 = 0)

DaysInMonth(y, m) ==
  IF m = 2 THEN (IF IsLeap(y) THEN 29 ELSE 28)
  ELSE IF m \in {4, 6, 9, 11} THEN 30 ELSE 31

StrptimeOk(v) ==
  /\ Len(v) >= 8
  /\ AllDigits(SubSeq(v, 1, 4))
  /\ v[5] = "-"
  /\ \E k \in 7..(Len(v) - 1) :
       /\ v[k] = "-"
       /\ MonthRe(SubSeq(v, 6, k - 1))
       /\ DayRe(SubSeq(v, k + 1, Len(v)))
       /\ ToInt(SubSeq(v, 1, 4)) >= 1
       /\ ToInt(LStrip(SubSeq(v, k + 1, Len(v))))
            <= DaysInMonth(ToInt(SubSeq(v, 1, 4)), ToInt(SubSeq(v, 6, k - 1)))

\* WorkoutLog.date_iso
date_iso(v) == StrptimeOk(v)

AllowedWorkoutTypes == {Push, Pull, Legs}

\* WorkoutLog.workout_type_enum: None passes; else the stripped, lower-cased
\* value must be allowed and replaces the input.
workout_type_ok(v) == v = None \/ Lower(Strip(v[1])) \in AllowedWorkoutTypes

workout_type_enum(v) == IF v = None THEN None ELSE Some(Lower(Strip(v[1])))

\* WorkoutLog.at_least_one_set
at_least_one_set(v) == v # <<>> /\ \E i \in 1..Len(v) : v[i].sets # <<>>

SchemaVersionDefault == 2

ManifestSchemaVersion == 2

\* uuid.uuid4() for the n-th request: a value no other request draws.
Uuid4(n) == <<"uuid4", ToString(n)>>

\* Whether the request body passes WorkoutLog's validation.
WorkoutLogValid(body) ==
  /\ date_iso(body.date)
  /\ workout_type_ok(body.workout_type)
  /\ \A i \in 1..Len(body.exercises) : ExerciseValid(body.exercises[i])
  /\ at_least_one_set(body.exercises)

\* log.model_dump() of the validated body; n numbers the request.
ModelDump(body, n) ==
  [schema_version |-> SchemaVersionDefault,
   date |-> body.date,
   workout_type |-> workout_type_enum(body.workout_type),
   exercises |-> [i \in 1..Len(body.exercises) |-> ExerciseDump(body.exercises[i])],
   notes |-> body.notes,
   session_id |-> IF body.session_id = None THEN Uuid4(n) ELSE body.session_id[1]]

(***************************************************************************)
(* JSON: json.dumps writes a dict as its members in key order, json.loads  *)
(* rebuilds the dict from the members (a repeated key keeps the last one). *)
(***************************************************************************)
JsonObject(d, keys) == [i \in 1..Len(keys) |-> <<keys[i], d[keys[i]]>>]

JsonMember(j, key) ==
  j[CHOOSE i \in 1..Len(j) : j[i][1] = key /\ \A k \in (i + 1)..Len(j) : j[k][1] # key][2]

ParseObject(j) == [key \in {j[i][1] : i \in 1..Len(j)} |-> JsonMember(j, key)]

MapSeq(Op(_), s) == [i \in 1..Len(s) |-> Op(s[i])]

SetKeys == <<"reps", "weight">>

ExerciseKeys == <<"name", "sets", "target_muscles">>

LogKeys == <<"schema_version", "date", "workout_type", "exercises", "notes", "session_id">>

EntryKeys ==
  <<"date", "file", "hash", "created_at", "schema_version", "session_id", "workout_type">>

ManifestKeys == <<"schema_version", "entries">>

DumpsSet(s) == JsonObject(s, SetKeys)

DumpsExercise(e) == JsonObject([e EXCEPT !.sets = MapSeq(DumpsSet, e.sets)], ExerciseKeys)

\* json.dumps(payload, separators=(',', ':')) of a log payload
DumpsLog(payload) ==
  JsonObject([payload EXCEPT !.exercises = MapSeq(DumpsExercise, payload.exercises)], LogKeys)

DumpsEntry(e) == JsonObject(e, EntryKeys)

\* json.dumps of the manifest {"schema_version": 2, "entries": [...]}: the
\* members the dict has
DumpsManifest(m) ==
  JsonObject([m EXCEPT !.entries = MapSeq(DumpsEntry, m.entries)],
             SelectSeq(ManifestKeys, LAMBDA key : key \in DOMAIN m))

LoadsExercise(j) ==
  LET e == ParseObject(j)
  IN  IF "sets" \in DOMAIN e THEN [e EXCEPT !.sets = MapSeq(ParseObject, e.sets)] ELSE e

\* json.loads of a file's bytes: nested objects become dicts again.
Loads(j) ==
  LET d == ParseObject(j)
      d1 == IF "exercises" \in DOMAIN d
            THEN [d EXCEPT !.exercises = MapSeq(LoadsExercise, d.exercises)] ELSE d
  IN  IF "entries" \in DOMAIN d1
      THEN [d1 EXCEPT !.entries = MapSeq(ParseObject, d1.entries)] ELSE d1

\* hashlib.sha256(json.dumps(payload).encode()).hexdigest(): a digest that
\* differs whenever the dumped bytes differ.
Sha256(payload) == <<"sha256", DumpsLog(payload)>>

(***************************************************************************)
(* The Drive folder: a listing of files [id, name, mimeType, content].     *)
(* Names are not unique in Drive.  files().list returns the listing in its *)
(* order; where a new file lands among files of the same name is Drive's   *)
(* choice.                                                                 *)
(***************************************************************************)
\* files().list(q = "name = '<name>' and '<folder>' in parents and trashed = false")
FilesNamed(fs, name) == SelectSeq(fs, LAMBDA f : f.name = name)

\* _find_file_by_name_in_folder: files[0] if files else None
find_file_by_name_in_folder(fs, name) ==
  IF FilesNamed(fs, name) = <<>> THEN None ELSE Some(FilesNamed(fs, name)[1])

\* _list_json_files_in_folder
list_json_files_in_folder(fs) == SelectSeq(fs, LAMBDA f : f.mimeType = ApplicationJson)

FileById(fs, id) == fs[CHOOSE i \in 1..Len(fs) : fs[i].id = id]

\* _create_json_file: a new file, with a fresh id, of mimeType application/json
create_json_file(fs, name, content, front) ==
  LET f == [id |-> Len(fs) + 1, name |-> name, mimeType |-> ApplicationJson,
            content |-> content]
  IN  IF front THEN <<f>> \o fs ELSE Append(fs, f)

\* _update_json_file: replaces the content of the file with that id
update_json_file(fs, id, content) ==
  [i \in 1..Len(fs) |-> IF fs[i].id = id THEN [fs[i] EXCEPT !.content = content] ELSE fs[i]]

\* _read_json_file
read_json_file(fs, id) == Loads(FileById(fs, id).content)

(***************************************************************************)
(* The manifest                                                            *)
(***************************************************************************)
\* sorted(entries, key = lambda e: e["date"]): a stable insertion sort
RECURSIVE InsertByDate(_, _)
InsertByDate(sorted, e) ==
  IF sorted = <<>> THEN <<e>>
  ELSE IF StrLess(e.date, sorted[Len(sorted)].date)
       THEN Append(InsertByDate(DropLast(sorted, 1), e), sorted[Len(sorted)])
       ELSE Append(sorted, e)

RECURSIVE SortedByDate(_)
SortedByDate(entries) ==
  IF entries = <<>> THEN <<>>
  ELSE InsertByDate(SortedByDate(DropLast(entries, 1)), entries[Len(entries)])

\* A faulty rebuild that makes an entry of every JSON file but index.json,
\* whatever its name ends with; C8 is sensitive to the difference.
RECURSIVE EntriesFromFilesAnyName(_)
EntriesFromFilesAnyName(listed) ==
  IF listed = <<>> THEN <<>>
  ELSE LET name == Head(listed).name
       IN  IF name = IndexJson THEN EntriesFromFilesAnyName(Tail(listed))
           ELSE <<[date |-> DropLast(name, 5), file |-> name]>>
                  \o EntriesFromFilesAnyName(Tail(listed))

\* The entries _load_manifest_entries builds from the folder's JSON files
\* when there is no index.json.
RECURSIVE EntriesFromFiles(_)
EntriesFromFiles(listed) ==
  IF listed = <<>> THEN <<>>
  ELSE LET name == Head(listed).name
       IN  IF name = IndexJson THEN EntriesFromFiles(Tail(listed))
           ELSE IF EndsWith(name, DotJson)
                THEN <<[date |-> DropLast(name, 5), file |-> name]>>
                       \o EntriesFromFiles(Tail(listed))
                ELSE EntriesFromFiles(Tail(listed))

\* manifest.get("entries", [])
GetEntries(manifest) == IF "entries" \in DOMAIN manifest THEN manifest.entries ELSE <<>>

\* manifest["entries"] = entries
SetEntries(manifest, entries) ==
  IF "entries" \in DOMAIN manifest THEN [manifest EXCEPT !.entries = entries]
  ELSE [key \in DOMAIN manifest \cup {"entries"} |->
          IF key = "entries" THEN entries ELSE manifest[key]]

\* _load_manifest_entries with an index.json: sorted(manifest.get("entries", []))
ManifestEntries(manifest) == SortedByDate(GetEntries(manifest))

\* _load_manifest_entries without one: the entries of the listed files, sorted
RebuiltEntries(listed) == SortedByDate(EntriesFromFiles(listed))

\* by_date = {e["date"]: e for e in entries}; by_date[entry["date"]] = entry;
\* by_date.values(): one entry per date, a later one replacing an earlier one
\* in its place, a new date going last.
RECURSIVE ByDateValues(_)
ByDateValues(entries) ==
  IF entries = <<>> THEN <<>>
  ELSE LET rest == ByDateValues(DropLast(entries, 1))
           e == entries[Len(entries)]
       IN  IF \E i \in 1..Len(rest) : rest[i].date = e.date
           THEN [i \in 1..Len(rest) |-> IF rest[i].date = e.date THEN e ELSE rest[i]]
           ELSE Append(rest, e)

\* A faulty _upsert_manifest that writes by_date.values() without sorting it;
\* C2 is sensitive to the difference.
UpsertEntriesUnsorted(manifest, entry) ==
  SetEntries(manifest, ByDateValues(Append(GetEntries(manifest), entry)))

\* The manifest _upsert_manifest writes, from the manifest it read.
UpsertEntries(manifest, entry) ==
  SetEntries(manifest, SortedByDate(ByDateValues(Append(GetEntries(manifest), entry))))

EmptyManifest == [schema_version |-> ManifestSchemaVersion, entries |-> <<>>]

(***************************************************************************)
(* The HTTP handlers.  A response is [status, body].  FastAPI validates    *)
(* the body and the parameters a handler declares before it calls the      *)
(* handler, and answers 422 itself when they fail; require_auth is the     *)
(* first statement of each handler.                                        *)
(***************************************************************************)
Resp(status, body) == [status |-> status, body |-> body]

Unprocessable == Resp(422, [detail |-> <<"validation error">>])

Unauthorized == Resp(401, [detail |-> <<"Unauthorized">>])

\* require_auth: whether the header passes
require_auth(authorization) == authorization = BearerApiKey

\* `if before:` is false for an absent and for an empty parameter
Truthy(opt) == opt # None /\ opt[1] # <<>>

\* A faulty cutoff that keeps the entries dated on the cutoff; C5 is
\* sensitive to the difference.
BeforeFilterInclusive(entries, before) ==
  IF Truthy(before) THEN SelectSeq(entries, LAMBDA e : ~StrLess(before[1], e.date))
  ELSE entries

\* entries = [e for e in entries if e["date"] < before]
BeforeFilter(entries, before) ==
  IF Truthy(before) THEN SelectSeq(entries, LAMBDA e : StrLess(e.date, before[1]))
  ELSE entries

\* (d.get("workout_type") or "").strip().lower(), of an entry or a document
WorkoutTypeOf(d) == Lower(Strip(OrElse(DictGet(d, "workout_type"), <<>>)))

\* data.get("exercises", [])
ExercisesOf(data) == IF "exercises" \in DOMAIN data THEN data.exercises ELSE <<>>

\* any((ex.get("target_muscles") or []) for ex in data.get("exercises", []))
AnyTargetMuscles(data) ==
  \E i \in 1..Len(ExercisesOf(data)) :
    OrElse(DictGet(ExercisesOf(data)[i], "target_muscles"), <<>>) # <<>>

\* Query(..., pattern = "^(push|pull|legs)$")
WorkoutTypePattern(type) == type \in {Push, Pull, Legs}

\* needle in [m.strip().lower() for m in (ex.get("target_muscles") or [])]
ExerciseHasMuscle(ex, needle) ==
  LET muscles == OrElse(DictGet(ex, "target_muscles"), <<>>)
  IN  \E k \in 1..Len(muscles) : Lower(Strip(muscles[k])) = needle

\* The inner loop of latest_for_muscle, from exercise k on: the first match.
RECURSIVE FirstExerciseWith(_, _, _)
FirstExerciseWith(exercises, k, needle) ==
  IF k > Len(exercises) THEN None
  ELSE IF ExerciseHasMuscle(exercises[k], needle) THEN Some(exercises[k])
  ELSE FirstExerciseWith(exercises, k + 1, needle)

\* Path(..., pattern = r"^\d{4}-\d{2}-\d{2}$")
DatePathPattern(date) ==
  /\ Len(date) = 10
  /\ \A i \in 1..10 : IF i \in {5, 8} THEN date[i] = "-" ELSE IsDigit(date[i])

(***************************************************************************)
(* The read handlers between their Drive calls.  A handler that is under   *)
(* way is the record rd of its locals: the request req, the id idx of the  *)
(* index.json it found, its entries, the index i of the entry it is at     *)
(* (entries[i] is the e of the loops, entries[-1] in latest_log), the loop *)
(* of latest_for_workout it is in (pass), the id of the file it found, and *)
(* pc, the Drive call it makes next.  Each operator below takes what a     *)
(* Drive call returned and runs the handler up to its next Drive call      *)
(* (Continue) or to its answer (Return).                                   *)
(***************************************************************************)
IdleReader == [pc |-> "idle"]

Continue(rd) == [reader |-> rd, resp |-> None]

Return(resp) == [reader |-> IdleReader, resp |-> Some(resp)]

\* The handler is about to look up entries[i]["file"].
Finding(rd, pass, i) ==
  Continue([rd EXCEPT !.pc = "doc_find", !.pass = pass, !.i = i, !.file = None])

\* The handler has found the file and is about to read it.
Reading(rd, file) == Continue([rd EXCEPT !.pc = "doc_read", !.file = Some(file[1].id)])

\* list_logs, from the entries _load_manifest_entries returned
ListLogsLoaded(rd, loaded) == Return(Resp(200, [entries |-> loaded]))

\* latest_log, from the entries _load_manifest_entries returned
LatestLogLoaded(rd, loaded) ==
  LET entries == BeforeFilter(loaded, rd.req.before)
  IN  IF entries = <<>> THEN Return(Resp(404, [detail |-> <<"No logs found">>]))
      ELSE Finding([rd EXCEPT !.entries = entries], "", Len(entries))

\* latest_log, from the file the lookup of latest["file"] returned
LatestLogFound(rd, file) ==
  IF file # None THEN Reading(rd, file)
  ELSE Return(Resp(200, [meta |-> rd.entries[rd.i], log |-> <<>>]))

\* latest_log, from the document read
LatestLogRead(rd, data) == Return(Resp(200, [meta |-> rd.entries[rd.i], log |-> data]))

\* The greatest j <= i whose entry has manifest workout_type t, or 0.
RECURSIVE LastOfType(_, _, _)
LastOfType(entries, i, t) ==
  IF i = 0 THEN 0
  ELSE IF WorkoutTypeOf(entries[i]) = t THEN i
  ELSE LastOfType(entries, i - 1, t)

\* A faulty latest_for_workout without the second loop; C6 is sensitive to
\* the difference.
WorkoutScanStrictOnly(rd, pass, i) ==
  LET t == Lower(Strip(rd.req.type))
      j == LastOfType(rd.entries, i, t)
  IN  IF pass = "strict" /\ j > 0 THEN Finding(rd, "strict", j)
      ELSE Return(Resp(404, [detail |-> <<"No logs found for workout_type", t>>]))

\* latest_for_workout's loops, from entries[i] down in the given pass, up to
\* the next lookup: the first loop passes over the entries of another
\* manifest workout_type, and is followed by the second loop from the last
\* entry again.
WorkoutScan(rd, pass, i) ==
  LET t == Lower(Strip(rd.req.type))
      j == LastOfType(rd.entries, i, t)
  IN  IF pass = "strict" /\ j > 0 THEN Finding(rd, "strict", j)
      ELSE IF pass = "strict" /\ rd.entries # <<>>
           THEN Finding(rd, "relaxed", Len(rd.entries))
      ELSE IF pass = "relaxed" /\ i > 0 THEN Finding(rd, "relaxed", i)
      ELSE Return(Resp(404, [detail |-> <<"No logs found for workout_type", t>>]))

\* latest_for_workout, from the entries _load_manifest_entries returned
WorkoutLoaded(rd, loaded) ==
  LET entries == BeforeFilter(loaded, rd.req.before)
  IN  WorkoutScan([rd EXCEPT !.entries = entries], "strict", Len(entries))

\* latest_for_workout, from the file the lookup of e["file"] returned
WorkoutFound(rd, file) ==
  IF file # None THEN Reading(rd, file) ELSE WorkoutScan(rd, rd.pass, rd.i - 1)

\* latest_for_workout, from the document read
WorkoutRead(rd, data) ==
  LET t == Lower(Strip(rd.req.type))
      hit == Return(Resp(200, [meta |-> rd.entries[rd.i], log |-> data]))
  IN  IF WorkoutTypeOf(data) = t THEN hit
      ELSE IF rd.pass = "strict" /\ AnyTargetMuscles(data) THEN hit
      ELSE WorkoutScan(rd, rd.pass, rd.i - 1)

\* latest_for_muscle's loop, from entries[i] down, up to the next lookup
MuscleScan(rd, i) ==
  IF i > 0 THEN Finding(rd, "", i)
  ELSE Return(Resp(404, [detail |-> <<"No logs found containing muscle", rd.req.muscle>>]))

\* latest_for_muscle, from the entries _load_manifest_entries returned
MuscleLoaded(rd, loaded) ==
  LET entries == BeforeFilter(loaded, rd.req.before)
  IN  MuscleScan([rd EXCEPT !.entries = entries], Len(entries))

\* latest_for_muscle, from the file the lookup of e["file"] returned
MuscleFound(rd, file) ==
  IF file # None THEN Reading(rd, file) ELSE MuscleScan(rd, rd.i - 1)

\* A faulty latest_for_muscle that looks for the muscle as given, neither
\* stripped nor lower-cased; C9 is sensitive to the difference.
MuscleReadRawNeedle(rd, data) ==
  LET ex == FirstExerciseWith(ExercisesOf(data), 1, rd.req.muscle)
  IN  IF ex # None
      THEN Return(Resp(200, [meta |-> rd.entries[rd.i], log |-> data,
                             matched_exercise |-> ex[1].name]))
      ELSE MuscleScan(rd, rd.i - 1)

\* latest_for_muscle, from the document read
MuscleRead(rd, data) ==
  LET needle == Lower(Strip(rd.req.muscle))
      ex == FirstExerciseWith(ExercisesOf(data), 1, needle)
  IN  IF ex # None
      THEN Return(Resp(200, [meta |-> rd.entries[rd.i], log |-> data,
                             matched_exercise |-> ex[1].name]))
      ELSE MuscleScan(rd, rd.i - 1)

\* fetch_log, from the file the lookup of f"{date}.json" returned
FetchLogFound(rd, file) ==
  IF file # None THEN Reading(rd, file)
  ELSE Return(Resp(404, [detail |-> <<"No log for", rd.req.date>>]))

\* fetch_log, from the document read
FetchLogRead(rd, data) == Return(Resp(200, data))

\* The handler of rd.req, from the entries _load_manifest_entries returned.
Loaded(rd, loaded) ==
  CASE rd.req.handler = "list_logs" -> ListLogsLoaded(rd, loaded)
    [] rd.req.handler = "latest_log" -> LatestLogLoaded(rd, loaded)
    [] rd.req.handler = "latest_for_workout" -> WorkoutLoaded(rd, loaded)
    [] rd.req.handler = "latest_for_muscle" -> MuscleLoaded(rd, loaded)

\* The name the handler of rd.req looks up.
Target(rd) ==
  IF rd.req.handler = "fetch_log" THEN rd.req.date \o DotJson ELSE rd.entries[rd.i].file

\* The handler of rd.req, from the file its lookup returned.
Found(rd, file) ==
  CASE rd.req.handler = "latest_log" -> LatestLogFound(rd, file)
    [] rd.req.handler = "latest_for_workout" -> WorkoutFound(rd, file)
    [] rd.req.handler = "latest_for_muscle" -> MuscleFound(rd, file)
    [] rd.req.handler = "fetch_log" -> FetchLogFound(rd, file)

\* The handler of rd.req, from the document it read.
DocumentRead(rd, data) ==
  CASE rd.req.handler = "latest_log" -> LatestLogRead(rd, data)
    [] rd.req.handler = "latest_for_workout" -> WorkoutRead(rd, data)
    [] rd.req.handler = "latest_for_muscle" -> MuscleRead(rd, data)
    [] rd.req.handler = "fetch_log" -> FetchLogRead(rd, data)

(***************************************************************************)
(* Requests the clients send                                               *)
(***************************************************************************)
\* save_log requests the model lets past validation and require_auth; the
\* requests that are refused, and the reads, are not bounded.
MaxSaves == 2

\* Threads of the server's pool: the requests under way at a time.
NumWorkers == 2

Workers == 1..NumWorkers

D1 == <<"2", "0", "2", "4", "-", "0", "1", "-", "0", "5">>

D2 == <<"2", "0", "2", "4", "-", "0", "1", "-", "1", "0">>

\* A date strptime accepts although its fields are not zero-padded.
DUnpadded == <<"2", "0", "2", "4", "-", "1", "-", "7">>

\* Not a day of the calendar.
DInvalid == <<"2", "0", "2", "4", "-", "0", "2", "-", "3", "0">>

BadBearer == <<"B", "e", "a", "r", "e", "r", " ", "k", "2">>

Bench ==
  [name |-> <<"B", "e", "n", "c", "h">>, sets |-> <<[reps |-> 5, weight |-> 60]>>,
   target_muscles |-> Some(<<<<" ", "C", "h", "e", "s", "t">>, <<" ">>>>)]

Squat ==
  [name |-> <<"S", "q", "u", "a", "t">>, sets |-> <<[reps |-> 5, weight |-> 100]>>,
   target_muscles |-> None]

Row ==
  [name |-> <<"R", "o", "w">>, sets |-> <<[reps |-> 8, weight |-> 40], [reps |-> 8, weight |-> 0]>>,
   target_muscles |-> Some(<<<<"b", "a", "c", "k">>>>)]

\* An exercise without sets: valid beside one that has sets.
Fly ==
  [name |-> <<"F", "l", "y">>, sets |-> <<>>, target_muscles |-> Some(<<<<"C", "H", "E", "S", "T">>>>)]

Body(date, workout_type, exercises, notes, session_id) ==
  [date |-> date, workout_type |-> workout_type, exercises |-> exercises,
   notes |-> notes, session_id |-> session_id]

ValidBodies ==
  { Body(D1, Some(<<" ", "P", "u", "s", "h">>), <<Bench>>, None, None),
    Body(D1, Some(Pull), <<Row, Fly, Bench>>, None, None),
    Body(D2, Some(Legs), <<Squat>>, Some(<<"heavy day">>), Some(<<"client-session">>)),
    Body(D2, Some(Pull), <<Squat>>, None, None),
    Body(DUnpadded, None, <<Bench>>, None, None) }

InvalidBodies ==
  { Body(DInvalid, Some(Push), <<Bench>>, None, None),
    Body(D1, Some(<<"y", "o", "g", "a">>), <<Bench>>, None, None),
    Body(D1, Some(Push), <<>>, None, None),
    Body(D1, Some(Push), <<Fly>>, None, None),
    Body(D1, Some(Push), <<[Bench EXCEPT !.name = <<" ">>]>>, None, None),
    Body(D1, Some(Push), <<[Bench EXCEPT !.sets = <<[reps |-> 0, weight |-> 60]>>]>>, None, None),
    Body(D1, Some(Push), <<[Bench EXCEPT !.sets = <<[reps |-> 5, weight |-> -1]>>]>>, None, None) }

SaveRequests ==
  [handler : {"save_log"}, auth : {BearerApiKey}, body : ValidBodies \cup InvalidBodies]
    \cup [handler : {"save_log"}, auth : {BadBearer, <<>>},
          body : {Body(D1, Some(Push), <<Bench>>, None, None),
                  Body(DInvalid, Some(Push), <<Bench>>, None, None)}]

Cutoffs == {None, Some(<<>>), Some(D2)}

ListRequests == [handler : {"list_logs"}, auth : {BearerApiKey, BadBearer}]

LatestRequests ==
  [handler : {"latest_log"}, auth : {BearerApiKey}, before : Cutoffs]
    \cup [handler : {"latest_log"}, auth : {BadBearer}, before : {None}]

WorkoutRequests ==
  [handler : {"latest_for_workout"}, auth : {BearerApiKey}, type : {Push, Pull},
   before : {None}]
    \cup [handler : {"latest_for_workout"}, auth : {BearerApiKey}, type : {Pull},
          before : {Some(D2)}]
    \cup [handler : {"latest_for_workout"}, auth : {BearerApiKey, BadBearer},
          type : {<<"P", "u", "s", "h">>}, before : {None}]
    \cup [handler : {"latest_for_workout"}, auth : {BadBearer}, type : {Push}, before : {None}]

MuscleRequests ==
  [handler : {"latest_for_muscle"}, auth : {BearerApiKey},
   muscle : {<<" ", "C", "h", "e", "s", "t">>, <<"b", "a", "c", "k">>, <<" ">>}, before : {None}]
    \cup [handler : {"latest_for_muscle"}, auth : {BearerApiKey},
          muscle : {<<" ", "C", "h", "e", "s", "t">>}, before : {Some(D2)}]
    \cup [handler : {"latest_for_muscle"}, auth : {BadBearer}, muscle : {<<"b", "a", "c", "k">>},
          before : {None}]

FetchRequests ==
  [handler : {"fetch_log"}, auth : {BearerApiKey}, date : {D1, D2, DUnpadded}]
    \cup [handler : {"fetch_log"}, auth : {BadBearer}, date : {D1, DUnpadded}]

(***************************************************************************)
(* State                                                                   *)
(***************************************************************************)
VARIABLES
  files,   \* the Drive folder's listing
  worker,  \* per worker: the save_log request it is running, and where it is
  reader,  \* the read handler under way: its locals, and where it is
  nsave,   \* save_log requests accepted so far, which numbers their uuid4
  now,     \* the clock datetime.now reads
  last     \* the response the last step sent, if it sent one: [req, status, body]

vars == <<files, worker, reader, nsave, now, last>>

Idle == [pc |-> "idle"]

\* Files of other programs a folder may hold: one that is not JSON, and a
\* JSON file whose name does not end in ".json".
ForeignFiles ==
  <<[id |-> 1, name |-> <<"a", ".", "t", "x", "t">>, mimeType |-> <<"text/plain">>, content |-> <<>>],
    [id |-> 2, name |-> <<"n", "o", "t", "e", "s">>, mimeType |-> ApplicationJson, content |-> <<>>]>>

\* f"{log.date}.json"
Filename(payload) == payload.date \o DotJson

\* The entry save_log passes to _upsert_manifest.
ManifestEntry(payload, created_at) ==
  [date |-> payload.date,
   file |-> Filename(payload),
   hash |-> Sha256(payload),
   created_at |-> created_at,
   schema_version |-> payload.schema_version,
   session_id |-> payload.session_id,
   workout_type |-> payload.workout_type]

\* A folder whose manifest lists a log that is no longer there: the entry
\* save_log wrote for a pull session of 2024-01-10, its document removed
\* from the folder since.
OrphanPayload == ModelDump(Body(D2, Some(Pull), <<Row>>, None, Some(<<"removed">>)), 0)

OrphanedManifest ==
  <<[id |-> 1, name |-> IndexJson, mimeType |-> ApplicationJson,
     content |-> DumpsManifest([EmptyManifest EXCEPT
                                  !.entries = <<ManifestEntry(OrphanPayload, 0)>>])]>>

\* A folder whose index.json has no "entries": {"schema_version": 2}.
BareManifest ==
  <<[id |-> 1, name |-> IndexJson, mimeType |-> ApplicationJson,
     content |-> <<<<"schema_version", ManifestSchemaVersion>>>>]>>

\* No response: what the state holds after a step that answers no request.
NoResponse == [req |-> [handler |-> "none"], status |-> 0, body |-> <<>>]

Init ==
  /\ files \in {<<>>, ForeignFiles, OrphanedManifest, BareManifest}
  /\ worker = [p \in Workers |-> Idle]
  /\ reader = IdleReader
  /\ nsave = 0
  /\ now = 0
  /\ last = NoResponse

Respond(req, resp) == last' = [req |-> req, status |-> resp.status, body |-> resp.body]

Silent == last' = NoResponse

\* The requests under way, each on a thread of the server's pool.
InFlight ==
  Cardinality({p \in Workers : worker[p].pc # "idle"})
    + (IF reader.pc = "idle" THEN 0 ELSE 1)

\* A request that is refused before any Drive call is taken up while no
\* other is under way, at the start or after the answer to a save_log: at
\* any other moment it would be answered what it is answered here.
Settled ==
  /\ InFlight = 0
  /\ last = NoResponse \/ (last.req.handler = "save_log" /\ last.status = 200)

\* The request goes to the free worker of least number.
FreeWorker ==
  {p \in Workers : worker[p].pc = "idle" /\ \A q \in 1..(p - 1) : worker[q].pc # "idle"}

\* The accepted save_log request, with the number of its uuid4 draw.
Numbered(r) == [k \in DOMAIN r \cup {"id"} |-> IF k = "id" THEN nsave + 1 ELSE r[k]]

(***************************************************************************)
(* save_log, one step per Drive call                                       *)
(***************************************************************************)
\* What refuses POST /logs before any Drive call: FastAPI answers 422 for a
\* body that fails WorkoutLog's validation, whatever the header; else
\* require_auth answers 401 for a bad header; else None.
SaveRefusal(r) ==
  IF ~WorkoutLogValid(r.body) THEN Some(Unprocessable)
  ELSE IF ~require_auth(r.auth) THEN Some(Unauthorized)
  ELSE None

SaveRefused(r) ==
  /\ Settled
  /\ SaveRefusal(r) # None
  /\ Respond(r, SaveRefusal(r)[1])
  /\ UNCHANGED <<files, worker, reader, nsave, now>>

\* POST /logs that passes both: model_dump; the Drive calls follow.
SaveStart(p, r) ==
  /\ p \in FreeWorker
  /\ InFlight < NumWorkers
  /\ nsave < MaxSaves
  /\ SaveRefusal(r) = None
  /\ nsave' = nsave + 1
  /\ worker' = [worker EXCEPT ![p] =
         [pc |-> "find", req |-> Numbered(r),
          payload |-> ModelDump(r.body, nsave + 1),
          existing |-> None, entry |-> None, index |-> None,
          manifest |-> None]]
  /\ Silent
  /\ UNCHANGED <<files, reader, now>>

\* existing = _find_file_by_name_in_folder(filename, DRIVE_FOLDER_ID)
SaveFind(p) ==
  /\ worker[p].pc = "find"
  /\ worker' = [worker EXCEPT ![p].pc = "write",
                  ![p].existing = find_file_by_name_in_folder(files, Filename(worker[p].payload))]
  /\ Silent
  /\ UNCHANGED <<files, reader, nsave, now>>

\* Where Drive may list a new file: among files of its name, first or last.
Placements(fs, name) == IF FilesNamed(fs, name) = <<>> THEN {FALSE} ELSE BOOLEAN

\* _update_json_file(existing["id"], payload) or _create_json_file(...)
SaveWrite(p) ==
  LET w == worker[p]
  IN  /\ w.pc = "write"
      /\ IF w.existing # None
         THEN files' = update_json_file(files, w.existing[1].id, DumpsLog(w.payload))
         ELSE \E front \in Placements(files, Filename(w.payload)) :
                files' = create_json_file(files, Filename(w.payload), DumpsLog(w.payload), front)
      /\ worker' = [worker EXCEPT ![p].pc = "upsert_find",
                      ![p].entry = Some(ManifestEntry(w.payload, now))]
      /\ now' = now + 1
      /\ Silent
      /\ UNCHANGED <<reader, nsave>>

\* _upsert_manifest: existing = _find_file_by_name_in_folder("index.json", ...)
UpsertFind(p) ==
  LET idx == find_file_by_name_in_folder(files, IndexJson)
  IN  /\ worker[p].pc = "upsert_find"
      /\ worker' = [worker EXCEPT ![p].index = idx,
                      ![p].pc = IF idx # None THEN "upsert_read" ELSE "upsert_write",
                      ![p].manifest = IF idx # None THEN None ELSE Some(EmptyManifest)]
      /\ Silent
  /\ UNCHANGED <<files, reader, nsave, now>>

\* _upsert_manifest: manifest = _read_json_file(existing["id"])
UpsertRead(p) ==
  /\ worker[p].pc = "upsert_read"
  /\ worker' = [worker EXCEPT ![p].pc = "upsert_write",
                  ![p].manifest = Some(read_json_file(files, worker[p].index[1].id))]
  /\ Silent
  /\ UNCHANGED <<files, reader, nsave, now>>

\* _upsert_manifest: the merge and the write; save_log then answers.
UpsertWrite(p) ==
  LET w == worker[p]
      manifest == UpsertEntries(w.manifest[1], w.entry[1])
  IN  /\ w.pc = "upsert_write"
      /\ IF w.index # None
         THEN files' = update_json_file(files, w.index[1].id, DumpsManifest(manifest))
         ELSE \E front \in Placements(files, IndexJson) :
                files' = create_json_file(files, IndexJson, DumpsManifest(manifest), front)
      /\ Respond(w.req, Resp(200, [ok |-> TRUE, file |-> Filename(w.payload),
                                   sha256 |-> Sha256(w.payload)]))
      /\ worker' = [worker EXCEPT ![p] = Idle]
      /\ UNCHANGED <<reader, nsave, now>>

(***************************************************************************)
(* The read handlers, one step per Drive call.  One read is under way at a *)
(* time: a read writes nothing, so a second one beside it would see what   *)
(* this one sees.                                                          *)
(***************************************************************************)
ReadRequests ==
  ListRequests \cup LatestRequests \cup WorkoutRequests \cup MuscleRequests \cup FetchRequests

\* What refuses a GET before any Drive call: FastAPI answers 422 for a type
\* or a date that fails its pattern, whatever the header; else require_auth
\* answers 401 for a bad header; else None.
ReadRefusal(r) ==
  IF r.handler = "latest_for_workout" /\ ~WorkoutTypePattern(r.type) THEN Some(Unprocessable)
  ELSE IF r.handler = "fetch_log" /\ ~DatePathPattern(r.date) THEN Some(Unprocessable)
  ELSE IF ~require_auth(r.auth) THEN Some(Unauthorized)
  ELSE None

ReadRefused(r) ==
  /\ Settled
  /\ ReadRefusal(r) # None
  /\ Respond(r, ReadRefusal(r)[1])
  /\ UNCHANGED <<files, worker, reader, nsave, now>>

\* A GET that passes both: fetch_log goes to its lookup, the other handlers
\* into _load_manifest_entries.
ReadStart(r) ==
  /\ reader = IdleReader
  /\ InFlight < NumWorkers
  /\ ReadRefusal(r) = None
  /\ reader' = [pc |-> IF r.handler = "fetch_log" THEN "doc_find" ELSE "load_find",
                req |-> r, idx |-> None, entries |-> <<>>, i |-> 0, pass |-> "",
                file |-> None]
  /\ Silent
  /\ UNCHANGED <<files, worker, nsave, now>>

\* A step of the handler under way: it goes on to its next Drive call or
\* answers.
ReaderStep(out) ==
  /\ reader' = out.reader
  /\ last' = IF out.resp = None THEN NoResponse
             ELSE [req |-> reader.req, status |-> out.resp[1].status,
                   body |-> out.resp[1].body]
  /\ UNCHANGED <<files, worker, nsave, now>>

\* _load_manifest_entries: idx = _find_file_by_name_in_folder("index.json", ...)
LoadFind ==
  LET idx == find_file_by_name_in_folder(files, IndexJson)
  IN  /\ reader.pc = "load_find"
      /\ ReaderStep(Continue([reader EXCEPT
           !.pc = IF idx # None THEN "load_read" ELSE "load_list",
           !.idx = IF idx # None THEN Some(idx[1].id) ELSE None]))

\* _load_manifest_entries: manifest = _read_json_file(idx["id"]); the handler
\* goes on with the entries.
LoadRead ==
  /\ reader.pc = "load_read"
  /\ ReaderStep(Loaded([reader EXCEPT !.idx = None],
                       ManifestEntries(read_json_file(files, reader.idx[1]))))

\* _load_manifest_entries: files = _list_json_files_in_folder(...); the
\* handler goes on with the entries.
LoadList ==
  /\ reader.pc = "load_list"
  /\ ReaderStep(Loaded(reader, RebuiltEntries(list_json_files_in_folder(files))))

\* file = _find_file_by_name_in_folder(e["file"], ...), in fetch_log of
\* f"{date}.json"
DocFind ==
  /\ reader.pc = "doc_find"
  /\ ReaderStep(Found(reader, find_file_by_name_in_folder(files, Target(reader))))

\* data = _read_json_file(file["id"])
DocRead ==
  /\ reader.pc = "doc_read"
  /\ ReaderStep(DocumentRead(reader, read_json_file(files, reader.file[1])))

Next ==
  \/ \E r \in SaveRequests : SaveRefused(r)
  \/ \E p \in Workers, r \in SaveRequests : SaveStart(p, r)
  \/ \E p \in Workers : SaveFind(p)
  \/ \E p \in Workers : SaveWrite(p)
  \/ \E p \in Workers : UpsertFind(p)
  \/ \E p \in Workers : UpsertRead(p)
  \/ \E p \in Workers : UpsertWrite(p)
  \/ \E r \in ReadRequests : ReadRefused(r)
  \/ \E r \in ReadRequests : ReadStart(r)
  \/ LoadFind
  \/ LoadRead
  \/ LoadList
  \/ DocFind
  \/ DocRead

Spec == Init /\ [][Next]_vars

(***************************************************************************)
(* Properties.  `last` holds the response of the step just taken.  A save  *)
(* may write between two Drive calls of a read, so what a read handler     *)
(* does is stated of its steps: of each Drive call, what the handler makes *)
(* of the folder as the call finds it.                                     *)
(***************************************************************************)
Answered(handler) == last.req.handler = handler /\ last.req.auth = BearerApiKey

\* The payload of the save_log request that has just answered 200.
SavedPayload == ModelDump(last.req.body, last.req.id)

SaveAnswered == last.req.handler = "save_log" /\ last.status = 200

NoSaveInFlight == \A p \in Workers : worker[p].pc = "idle"

\* The entries stored in an index.json file, none when it has no "entries".
StoredEntries(f) ==
  IF "entries" \in DOMAIN Loads(f.content) THEN Loads(f.content).entries ELSE <<>>

\* The files that are log documents: JSON files named <date>.json.
IsLogFile(f) ==
  f.mimeType = ApplicationJson /\ f.name # IndexJson /\ EndsWith(f.name, DotJson)

LogFiles(fs) == {fs[i] : i \in {k \in 1..Len(fs) : IsLogFile(fs[k])}}

\* The entries a handler would load from the folder, as a set: those of the
\* index.json that the lookup by name returns or, without one, one per log
\* document.
ManifestEntrySet(fs) ==
  IF FilesNamed(fs, IndexJson) # <<>>
  THEN LET stored == StoredEntries(FilesNamed(fs, IndexJson)[1])
       IN  {stored[i] : i \in 1..Len(stored)}
  ELSE {[date |-> DropLast(f.name, 5), file |-> f.name] : f \in LogFiles(fs)}

\* Those of a set of entries dated strictly before the cutoff, when one is
\* given.
Before(S, before) ==
  IF Truthy(before) THEN {e \in S : StrLess(e.date, before[1])} ELSE S

EntriesBefore(fs, before) == Before(ManifestEntrySet(fs), before)

HasDocument(fs, e) == FilesNamed(fs, e.file) # <<>>

\* The handler of this name is under way.
ReaderOf(handler) == reader # IdleReader /\ reader.req.handler = handler

\* The step is one of the handler under way.
ReaderActs == reader # IdleReader /\ reader' # reader

\* The step ends the handler under way with this status.
ReaderAnswers(status) ==
  reader' = IdleReader /\ last'.req = reader.req /\ last'.status = status

\* The handler under way is in _load_manifest_entries, past the lookup of
\* index.json.
Loading == reader.pc \in {"load_read", "load_list"}

\* The entries the folder gives the handler at this step of
\* _load_manifest_entries: those of the index.json it found, or one per log
\* document.
LoadedSet ==
  IF reader.pc = "load_read"
  THEN LET stored == StoredEntries(FileById(files, reader.idx[1]))
       IN  {stored[k] : k \in 1..Len(stored)}
  ELSE {[date |-> DropLast(f.name, 5), file |-> f.name] : f \in LogFiles(files)}

\* The handler under way is at a lookup or a read of its entry's document.
AtDocument == reader.pc \in {"doc_find", "doc_read"}

\* The entry the handler under way is at; the one it is at after the step.
Entry == reader.entries[reader.i]

NextEntry == reader'.entries[reader'.i]

\* The document the handler under way reads at this step.
DocumentAtHand == Loads(FileById(files, reader.file[1]).content)

\* The step of a lookup that finds the file: the handler goes on to read the
\* first file of that name.
GoesToRead(name) ==
  /\ reader' = [reader EXCEPT !.pc = "doc_read", !.file = <<FilesNamed(files, name)[1].id>>]
  /\ last' = NoResponse

\* The handler goes on to look up entries[i] in this pass, its entries kept.
GoesToEntry(pass, i) ==
  /\ reader' # IdleReader
  /\ reader'.pc = "doc_find"
  /\ reader'.entries = reader.entries
  /\ reader'.pass = pass
  /\ reader'.i = i
  /\ last' = NoResponse

\* The handler comes out of _load_manifest_entries holding the entries of S,
\* in ascending order of date.
HoldsSorted(S) ==
  /\ reader' # IdleReader
  /\ {reader'.entries[k] : k \in 1..Len(reader'.entries)} = S
  /\ \A j \in 1..Len(reader'.entries) : \A k \in (j + 1)..Len(reader'.entries) :
       ~StrLess(reader'.entries[k].date, reader'.entries[j].date)
  /\ reader'.pc = "doc_find"
  /\ last' = NoResponse

\* C1 (as claimed): a fetch_log(d) that arrives on the 200 of a save_log for
\* d, no other save for d being under way, is taken up, and the document of
\* the name it looks up is the saved payload; and fetch_log answers 404 when
\* its lookup finds no file, else 200 with the content of the file found.
FetchArrives(d) ==
  \/ /\ reader' = reader
     /\ last'.req.handler = "fetch_log"
     /\ last'.req.auth = BearerApiKey
     /\ last'.req.date = d
  \/ /\ reader = IdleReader
     /\ reader' # IdleReader
     /\ reader'.req.handler = "fetch_log"
     /\ reader'.req.date = d

C1_RoundTrip ==
  [][/\ (/\ SaveAnswered
         /\ \A p \in Workers : worker[p].pc # "idle" => worker[p].payload.date # SavedPayload.date
         /\ FetchArrives(SavedPayload.date))
        => /\ reader' # IdleReader
           /\ FilesNamed(files, SavedPayload.date \o DotJson) # <<>>
           /\ Loads(FilesNamed(files, SavedPayload.date \o DotJson)[1].content) = SavedPayload
     /\ (ReaderOf("fetch_log") /\ ReaderActs)
        => IF reader.pc = "doc_read"
           THEN ReaderAnswers(200) /\ last'.body = DocumentAtHand
           ELSE IF FilesNamed(files, reader.req.date \o DotJson) = <<>>
                THEN ReaderAnswers(404)
                ELSE GoesToRead(reader.req.date \o DotJson)]_vars

\* C2: every index.json holds its entries in strictly ascending order of date
\* (so at most one per date), and when a save_log answers, an index.json
\* holds for its date the entry of that request.
SortedStrictly(entries) ==
  \A i \in 1..Len(entries) : \A j \in (i + 1)..Len(entries) :
    StrLess(entries[i].date, entries[j].date)

IsEntryOf(e, payload) ==
  /\ e.date = payload.date
  /\ e.file = payload.date \o DotJson
  /\ e.hash = <<"sha256", DumpsLog(payload)>>
  /\ e.session_id = payload.session_id
  /\ e.workout_type = payload.workout_type

C2_ManifestSortedUnique ==
  /\ \A i \in 1..Len(files) :
       files[i].name = IndexJson => SortedStrictly(StoredEntries(files[i]))
  /\ SaveAnswered =>
       \E i \in 1..Len(files) :
         /\ files[i].name = IndexJson
         /\ \E k \in 1..Len(StoredEntries(files[i])) :
              IsEntryOf(StoredEntries(files[i])[k], SavedPayload)

\* C2 witness: the folder's manifest listed 2024-01-10; that date was saved
\* again, then 2024-01-05; the manifest now lists both in order, the entry
\* of 2024-01-10 being the one of the new save.
C2_Witness ==
  /\ SaveAnswered
  /\ last.req.id = 2
  /\ SavedPayload.date = D1
  /\ \E i \in 1..Len(files) :
       /\ files[i].name = IndexJson
       /\ files[i].id = OrphanedManifest[1].id
       /\ Len(StoredEntries(files[i])) = 2
       /\ StoredEntries(files[i])[1].date = D1
       /\ StoredEntries(files[i])[2].date = D2
       /\ StoredEntries(files[i])[2].session_id # OrphanPayload.session_id

\* C3 (as claimed): at most one file is named <date>.json for each date, and
\* exactly one when a save for the date has answered.
C3_OneDocumentPerDate ==
  /\ \A f \in LogFiles(files) : Len(FilesNamed(files, f.name)) <= 1
  /\ SaveAnswered => Len(FilesNamed(files, SavedPayload.date \o DotJson)) = 1

\* C4 (as claimed): with no save_log under way, an index.json has an entry
\* for every log document of the folder.
C4_ManifestCoversDocuments ==
  (NoSaveInFlight /\ LogFiles(files) # {}) =>
    \E i \in 1..Len(files) :
      /\ files[i].name = IndexJson
      /\ \A f \in LogFiles(files) :
           \E k \in 1..Len(StoredEntries(files[i])) :
             StoredEntries(files[i])[k].file = f.name

\* C5: latest_log keeps, of the entries it loads, those dated strictly before
\* the cutoff (all of them when no cutoff is given); it answers 404 when
\* there is none, and else 200 with the one of greatest date as meta.
C5_LatestBeforeCutoff ==
  [][(ReaderOf("latest_log") /\ ReaderActs) =>
       IF Loading
       THEN LET S == Before(LoadedSet, reader.req.before)
            IN  IF S = {} THEN ReaderAnswers(404)
                ELSE /\ HoldsSorted(S)
                     /\ NextEntry \in S
                     /\ \A e \in S : ~StrLess(NextEntry.date, e.date)
       ELSE IF AtDocument
       THEN IF reader' = IdleReader
            THEN ReaderAnswers(200) /\ last'.body.meta = Entry
            ELSE GoesToRead(Entry.file)
       ELSE TRUE]_vars

\* C5 witness: a cutoff excluded a later entry.
C5_Witness ==
  /\ Answered("latest_log")
  /\ last.status = 200
  /\ Truthy(last.req.before)
  /\ \E e \in ManifestEntrySet(files) : ~StrLess(e.date, last.req.before[1])

\* C6: latest_for_workout(t, c) holds the entries before c in order of date.
\* Its strict pass goes down the entries of manifest type t, and answers with
\* the first whose document is there and has type t or target muscles.  When
\* the strict pass returns nothing, the relaxed pass starts from the latest
\* entry and goes down every entry whatever its manifest type: it answers
\* with the first whose document is there and has type t, and 404 is answered
\* only when it has gone past the earliest entry (or there is no entry
\* before c).
OfManifestType(t) == {k \in 1..Len(reader.entries) : WorkoutTypeOf(reader.entries[k]) = t}

\* The strict pass goes on below entry i, or gives way to the relaxed pass.
StrictPassGoesOn(t, i) ==
  LET rest == {k \in OfManifestType(t) : k < i}
  IN  IF rest # {}
      THEN \E k \in rest : GoesToEntry("strict", k) /\ \A j \in rest : j <= k
      ELSE GoesToEntry("relaxed", Len(reader.entries))

\* The relaxed pass goes on below entry i, or 404 is answered.
RelaxedPassGoesOn(i) ==
  IF i > 1 THEN GoesToEntry("relaxed", i - 1) ELSE ReaderAnswers(404)

C6_WorkoutFallback ==
  [][(ReaderOf("latest_for_workout") /\ ReaderActs) =>
       LET t == reader.req.type
       IN  IF Loading
           THEN LET S == Before(LoadedSet, reader.req.before)
                    strict == {e \in S : WorkoutTypeOf(e) = t}
                IN  IF S = {} THEN ReaderAnswers(404)
                    ELSE /\ HoldsSorted(S)
                         /\ reader'.i \in 1..Len(reader'.entries)
                         /\ IF strict # {}
                            THEN /\ reader'.pass = "strict"
                                 /\ NextEntry \in strict
                                 /\ \A e \in strict : ~StrLess(NextEntry.date, e.date)
                            ELSE /\ reader'.pass = "relaxed"
                                 /\ reader'.i = Len(reader'.entries)
           ELSE IF reader.pc = "doc_find"
           THEN IF HasDocument(files, Entry) THEN GoesToRead(Entry.file)
                ELSE IF reader.pass = "strict" THEN StrictPassGoesOn(t, reader.i)
                ELSE RelaxedPassGoesOn(reader.i)
           ELSE IF reader.pc = "doc_read"
           THEN LET hit == /\ ReaderAnswers(200)
                           /\ last'.body = [meta |-> Entry, log |-> DocumentAtHand]
                IN  IF WorkoutTypeOf(DocumentAtHand) = t THEN hit
                    ELSE IF reader.pass = "strict"
                    THEN IF AnyTargetMuscles(DocumentAtHand) THEN hit
                         ELSE StrictPassGoesOn(t, reader.i)
                    ELSE RelaxedPassGoesOn(reader.i)
           ELSE TRUE]_vars

\* C6 witness: the answer is an entry that the manifest does not give type
\* t, which only the relaxed pass returns.
C6_Witness ==
  /\ Answered("latest_for_workout")
  /\ last.status = 200
  /\ WorkoutTypeOf(last.body.meta) # last.req.type
  /\ WorkoutTypeOf(last.body.log) = last.req.type

\* C7 (as claimed): a request whose header is not "Bearer <API_KEY>" is
\* answered 401 and the folder is left as it was.
C7_Unauthorized ==
  [][(last'.req.handler # "none" /\ last'.req.auth # BearerApiKey)
     => (last'.status = 401 /\ files' = files)]_vars

\* C8: _load_manifest_entries reads the entries of the first file named
\* index.json when there is one; else it lists the folder, and the entries
\* are one per log document, dated by the file name less ".json", in
\* ascending order of date.  Seen in what list_logs answers, and in what the
\* latest-* handlers hold when no cutoff is given.
LoadedEntries ==
  IF reader.req.handler = "list_logs" THEN last'.body.entries
  ELSE IF reader' = IdleReader THEN <<>>
  ELSE reader'.entries

C8_EntriesRebuilt ==
  [][(/\ ReaderActs
      /\ reader.req.handler # "fetch_log"
      /\ reader.req.handler = "list_logs" \/ ~Truthy(reader.req.before)) =>
       IF reader.pc = "load_find"
       THEN IF FilesNamed(files, IndexJson) = <<>>
            THEN reader' = [reader EXCEPT !.pc = "load_list"]
            ELSE reader' = [reader EXCEPT !.pc = "load_read",
                                          !.idx = <<FilesNamed(files, IndexJson)[1].id>>]
       ELSE IF reader.pc = "load_read"
       THEN LoadedEntries = StoredEntries(FileById(files, reader.idx[1]))
       ELSE IF reader.pc = "load_list"
       THEN LET entries == LoadedEntries
            IN  /\ \A i \in 1..Len(entries) : \A j \in (i + 1)..Len(entries) :
                     ~StrLess(entries[j].date, entries[i].date)
                /\ \A i \in 1..Len(entries) :
                     /\ \E f \in LogFiles(files) : entries[i].file = f.name
                     /\ entries[i] = [date |-> DropLast(entries[i].file, 5),
                                      file |-> entries[i].file]
                /\ \A f \in LogFiles(files) :
                     Cardinality({i \in 1..Len(entries) : entries[i].file = f.name})
                       = Len(SelectSeq(files, LAMBDA g : IsLogFile(g) /\ g.name = f.name))
       ELSE TRUE]_vars

\* C8 witness: list_logs answered a list rebuilt from a folder that also
\* holds files that are not log documents.
C8_Witness ==
  /\ Answered("list_logs")
  /\ last.status = 200
  /\ FilesNamed(files, IndexJson) = <<>>
  /\ Len(last.body.entries) >= 1
  /\ Len(files) > Len(last.body.entries)

\* C9: latest_for_muscle(m, c) holds the entries before c in order of date
\* and goes down them from the latest: an entry whose file is missing is
\* passed over, and so is one whose document has no exercise listing m
\* (stripped, lower-cased); the first other one is answered, with the name of
\* the first such exercise of its document; 404 is answered when the scan
\* has gone past the earliest entry (or there is no entry before c).
TrainsMuscle(ex, m) ==
  /\ "target_muscles" \in DOMAIN ex
  /\ ex.target_muscles # None
  /\ \E k \in 1..Len(ex.target_muscles[1]) :
       Lower(Strip(ex.target_muscles[1][k])) = Lower(Strip(m))

MuscleScanGoesOn(i) ==
  IF i > 1 THEN GoesToEntry("", i - 1) ELSE ReaderAnswers(404)

C9_LatestForMuscle ==
  [][(ReaderOf("latest_for_muscle") /\ ReaderActs) =>
       LET m == reader.req.muscle
       IN  IF Loading
           THEN LET S == Before(LoadedSet, reader.req.before)
                IN  IF S = {} THEN ReaderAnswers(404)
                    ELSE HoldsSorted(S) /\ reader'.i = Len(reader'.entries)
           ELSE IF reader.pc = "doc_find"
           THEN IF HasDocument(files, Entry) THEN GoesToRead(Entry.file)
                ELSE MuscleScanGoesOn(reader.i)
           ELSE IF reader.pc = "doc_read"
           THEN LET exercises == DocumentAtHand.exercises
                    hits == {k \in 1..Len(exercises) : TrainsMuscle(exercises[k], m)}
                IN  IF hits = {} THEN MuscleScanGoesOn(reader.i)
                    ELSE /\ ReaderAnswers(200)
                         /\ last'.body.meta = Entry
                         /\ last'.body.log = DocumentAtHand
                         /\ \E k \in hits :
                              /\ \A j \in hits : k <= j
                              /\ last'.body.matched_exercise = exercises[k].name
           ELSE TRUE]_vars

\* C9 witness: the muscle was given with a blank and a capital, the matched
\* exercise is not the first of its document, and a later entry was passed
\* over because its file is missing.
C9_Witness ==
  /\ Answered("latest_for_muscle")
  /\ last.status = 200
  /\ last.req.muscle # Lower(Strip(last.req.muscle))
  /\ last.body.matched_exercise # last.body.log.exercises[1].name
  /\ \E e \in EntriesBefore(files, last.req.before) :
       StrLess(last.body.meta.date, e.date) /\ ~HasDocument(files, e)

\* C10 (as claimed): with no save_log under way, a latest_for_workout that
\* answers 200 for type t carries a document of type t.
C10_WorkoutTypeAgrees ==
  (Answered("latest_for_workout") /\ last.status = 200 /\ NoSaveInFlight) =>
    WorkoutTypeOf(last.body.log) = Lower(Strip(last.req.type))

====
